---- MODULE Spec2Model ----
(***************************************************************************)
(* Model of the documentation workflow scripts under .github/scripts:      *)
(*   detect_examples.py  - classification of changed paths                 *)
(*   generate_docs.py    - code extraction, analysis with fallback,        *)
(*                         document synthesis and the per-file pipeline    *)
(*                                                                         *)
(* Text is modelled as a sequence of lexemes (words, single spaces, single *)
(* braces, newlines).  A Python substring test is a contiguous-lexeme      *)
(* test, strip() drops leading and trailing space lexemes, and slicing     *)
(* counts one space lexeme as one character.                               *)
(***************************************************************************)
EXTENDS Integers, Sequences, FiniteSets, TLC

VARIABLES
    \* clean_code_for_docs: the lines read so far and the loop's locals
    lines, in_class, in_method, brace_count, cleaned_lines, broke, xpc, xresult,
    \* detect_examples.main
    changed_files, disk, cidx, example_files, gh_output, cpc,
    \* determine_docs_path's slug, applied once and twice
    title_in, slug1, slug2, spc,
    \* fallback_analysis' barcode_types scan
    fb_text, fb_types, fpc,
    \* generate_docs / main of generate_docs.py
    api_key, examples_repo, example_file, code_content, response,
    analysis, doc, docs_path, written, outcome, gpc

xvars == <<lines, in_class, in_method, brace_count, cleaned_lines, broke, xpc, xresult>>
cvars == <<changed_files, disk, cidx, example_files, gh_output, cpc>>
svars == <<title_in, slug1, slug2, spc>>
fvars == <<fb_text, fb_types, fpc>>
gvars == <<api_key, examples_repo, example_file, code_content, response,
           analysis, doc, docs_path, written, outcome, gpc>>
vars == <<xvars, cvars, svars, fvars, gvars>>

(***************************************************************************)
(* Bounds                                                                  *)
(***************************************************************************)
\* number of source lines fed to clean_code_for_docs
MaxLines == 5

(***************************************************************************)
(* String helpers (Python str methods on lexeme sequences)                 *)
(***************************************************************************)
Spaces(n) == [i \in 1..n |-> " "]

\* s.startswith(p)
StartsWith(s, p) == Len(s) >= Len(p) /\ \A k \in 1..Len(p) : s[k] = p[k]

\* s.endswith(p)
EndsWith(s, p) == Len(s) >= Len(p) /\ \A k \in 1..Len(p) : s[Len(s) - Len(p) + k] = p[k]

\* p in s
Contains(s, p) == \E i \in 0..(Len(s) - Len(p)) : \A k \in 1..Len(p) : s[i + k] = p[k]

\* s.count(c) for a one-character c
Count(s, c) == Cardinality({i \in 1..Len(s) : s[i] = c})

RECURSIVE LStrip(_)
LStrip(s) == IF s # <<>> /\ Head(s) = " " THEN LStrip(Tail(s)) ELSE s

RECURSIVE RStrip(_)
RStrip(s) == IF s # <<>> /\ s[Len(s)] = " " THEN RStrip(SubSeq(s, 1, Len(s) - 1)) ELSE s

\* s.strip()
Strip(s) == RStrip(LStrip(s))

\* '\n'.join(ls)
RECURSIVE Join(_)
Join(ls) == IF ls = <<>> THEN <<>>
            ELSE IF Len(ls) = 1 THEN ls[1]
            ELSE ls[1] \o <<"\n">> \o Join(Tail(ls))

(***************************************************************************)
(* clean_code_for_docs                                                     *)
(***************************************************************************)
UsingPrefix == <<"using", " ">>
NamespacePrefix == <<"namespace", " ">>
ClassWord == <<"class", " ">>
ClassDecl == <<"public", " ", "static", " ", "class">>
RunSig == <<"public", " ", "static", " ", "void", " ", "Run(">>

\* line 199: stripped.startswith('using ') or stripped.startswith('namespace ')
IsUsingOrNamespace(stripped) ==
    StartsWith(stripped, UsingPrefix) \/ StartsWith(stripped, NamespacePrefix)

\* line 207: 'class ' in stripped and 'public static class' in stripped
IsClassLine(stripped) == Contains(stripped, ClassWord) /\ Contains(stripped, ClassDecl)

\* a variant that takes any Run( line for the entry point, class seen or not
IsEntryLineNoClass(inClass, stripped) == Contains(stripped, RunSig)

\* line 211: in_class and 'public static void Run(' in stripped
IsEntryLine(inClass, stripped) == inClass /\ Contains(stripped, RunSig)

\* line 226: line[8:] if line.startswith('        ') else line
AdjustLine(line) ==
    IF StartsWith(line, Spaces(8)) THEN SubSeq(line, 9, Len(line)) ELSE line

\* a variant that stops before appending the closing line
EmitThenStopSkipLast(st, line, stripped, bc) ==
    IF bc <= 0 /\ EndsWith(stripped, <<"}">>)
    THEN [st EXCEPT !.brace_count = bc, !.broke = TRUE]
    ELSE [st EXCEPT !.brace_count = bc,
                    !.cleaned_lines = Append(@, IF stripped # <<>> THEN AdjustLine(line) ELSE <<>>)]

\* lines 223-233: append the line, then break when the method ends
EmitThenStop(st, line, stripped, bc) ==
    [st EXCEPT !.brace_count = bc,
               !.cleaned_lines = Append(@, IF stripped # <<>> THEN AdjustLine(line) ELSE <<>>),
               !.broke = bc <= 0 /\ EndsWith(stripped, <<"}">>)]

\* lines 196-233: one iteration of the for loop over the loop's locals
LoopBody(st, line) ==
    LET stripped == Strip(line) IN
    IF IsUsingOrNamespace(stripped) THEN st
    ELSE IF stripped = <<>> /\ ~st.in_method THEN st
    ELSE IF IsClassLine(stripped) THEN [st EXCEPT !.in_class = TRUE]
    ELSE IF IsEntryLine(st.in_class, stripped) THEN [st EXCEPT !.in_method = TRUE]
    ELSE IF st.in_method THEN
        LET bc == st.brace_count + Count(stripped, "{") - Count(stripped, "}") IN
        IF Contains(stripped, RunSig) THEN [st EXCEPT !.brace_count = bc]
        ELSE EmitThenStop(st, line, stripped, bc)
    ELSE st

\* lines 191-193: the locals before the loop
LoopInit == [in_class |-> FALSE, in_method |-> FALSE, brace_count |-> 0,
             cleaned_lines |-> <<>>, broke |-> FALSE]

\* lines 236-237: drop trailing empty lines
RECURSIVE TrimTrailingBlank(_)
TrimTrailingBlank(ls) ==
    IF ls # <<>> /\ Strip(ls[Len(ls)]) = <<>>
    THEN TrimTrailingBlank(SubSeq(ls, 1, Len(ls) - 1))
    ELSE ls

\* lines 195-233 as a fold: the for loop over `ls`, leaving at a break
RECURSIVE RunLoop(_, _)
RunLoop(st, ls) ==
    IF ls = <<>> \/ st.broke THEN st ELSE RunLoop(LoopBody(st, Head(ls)), Tail(ls))

\* lines 186-239 over the lines of code_content
CleanCodeForDocs(ls) == Join(TrimTrailingBlank(RunLoop(LoopInit, ls).cleaned_lines))

\* the source lines the extractor is fed
L_Blank == <<>>
L_Using == <<"using", " ", "System;">>
L_Namespace == <<"namespace", " ", "Examples.Core.Generation">>
L_Class == Spaces(4) \o ClassDecl \o <<" ", "BasicGenerationExample">>
L_Run == Spaces(8) \o RunSig \o <<")">>
L_Open == Spaces(8) \o <<"{">>
L_Close == Spaces(8) \o <<"}">>
L_Stmt == Spaces(12) \o <<"var barcode = new BarcodeGenerator(...)">>
L_UsingBlock == Spaces(12) \o <<"using", " ", "(var g = new G())", " ", "{">>
L_StmtClose2 == Spaces(12) \o <<"g.Save();", " ", "}", "}">>

SourceLines == {L_Blank, L_Namespace, L_Class, L_Run, L_Open, L_Close,
                L_Stmt, L_UsingBlock, L_StmtClose2}

XIdle == /\ lines = <<>> /\ in_class = FALSE /\ in_method = FALSE /\ brace_count = 0
         /\ cleaned_lines = <<>> /\ broke = FALSE /\ xpc = "idle" /\ xresult = <<>>

XInit == /\ lines = <<>> /\ in_class = FALSE /\ in_method = FALSE /\ brace_count = 0
         /\ cleaned_lines = <<>> /\ broke = FALSE /\ xpc = "loop" /\ xresult = <<>>

\* one iteration of the for loop on the next line of the text
ProcessLine ==
    /\ xpc = "loop"
    /\ Len(lines) < MaxLines
    /\ \E line \in SourceLines :
        LET st == LoopBody([in_class |-> in_class, in_method |-> in_method,
                            brace_count |-> brace_count,
                            cleaned_lines |-> cleaned_lines, broke |-> FALSE], line) IN
        /\ lines' = Append(lines, line)
        /\ in_class' = st.in_class
        /\ in_method' = st.in_method
        /\ brace_count' = st.brace_count
        /\ cleaned_lines' = st.cleaned_lines
        /\ broke' = st.broke
        /\ xpc' = IF st.broke THEN "trim" ELSE "loop"
    /\ UNCHANGED <<xresult, cvars, svars, fvars, gvars>>

\* the for loop runs out of lines (split('\n') yields at least one line)
EndOfInput ==
    /\ xpc = "loop"
    /\ Len(lines) >= 1
    /\ xpc' = "trim"
    /\ UNCHANGED <<lines, in_class, in_method, brace_count, cleaned_lines, broke,
                   xresult, cvars, svars, fvars, gvars>>

\* lines 235-239: trim trailing empty lines, join, return
ReturnCleaned ==
    /\ xpc = "trim"
    /\ cleaned_lines' = TrimTrailingBlank(cleaned_lines)
    /\ xresult' = Join(TrimTrailingBlank(cleaned_lines))
    /\ xpc' = "done"
    /\ UNCHANGED <<lines, in_class, in_method, brace_count, broke,
                   cvars, svars, fvars, gvars>>

(***************************************************************************)
(* detect_examples.py                                                      *)
(*                                                                         *)
(* A path is a sequence of segments (Path.parts); a segment is a sequence  *)
(* of lexemes, the last one possibly a dotted extension.                   *)
(***************************************************************************)
\* number of paths git reports as changed
MaxChanged == 2

DotLexemes == {".cs", ".md", ".Core"}
ExamplesCore == <<"Examples", ".Core">>
valid_categories == <<"Generation", "Reading", "Formatting", "Advanced">>

\* Path.name
PathName(path) == IF path = <<>> THEN <<>> ELSE path[Len(path)]

\* Path.suffix: the last dotted component of the name, none for a name that is
\* only the dotted component
PathSuffix(path) ==
    LET name == PathName(path) IN
    IF Len(name) >= 2 /\ name[Len(name)] \in DotLexemes THEN name[Len(name)] ELSE ""

\* Path.stem
PathStem(path) ==
    LET name == PathName(path) IN
    IF PathSuffix(path) # "" THEN SubSeq(name, 1, Len(name) - 1) ELSE name

\* str(path): the segments joined by '/'
RECURSIVE PathStr(_)
PathStr(path) == IF path = <<>> THEN <<>>
                 ELSE IF Len(path) = 1 THEN path[1]
                 ELSE path[1] \o <<"/">> \o PathStr(Tail(path))

\* lines 53-56: any(cat in str(path) for cat in valid_categories)
InCategoryDirectory(path) ==
    \E k \in 1..Len(valid_categories) : Contains(PathStr(path), <<valid_categories[k]>>)

\* lines 37-58
is_example_file(path) ==
    IF ~(\E i \in 1..Len(path) : path[i] = ExamplesCore) THEN FALSE
    ELSE IF PathSuffix(path) # ".cs" THEN FALSE
    ELSE IF PathName(path) = <<"LicenseHelper", ".cs">> \/ Contains(PathName(path), <<"Test">>)
         THEN FALSE
    ELSE IF ~InCategoryDirectory(path) THEN FALSE
    ELSE TRUE

\* the segments of `path` that are category names, in path order
CategoryParts(path) ==
    SelectSeq(path, LAMBDA part : \E k \in 1..Len(valid_categories) :
                                      part = <<valid_categories[k]>>)

\* lines 61-67
get_example_category(path) ==
    IF CategoryParts(path) # <<>> THEN CategoryParts(path)[1][1] ELSE "Unknown"

P_Basic == <<ExamplesCore, <<"Generation">>, <<"Basic", "Generation", "Example", ".cs">>>>
P_License == <<ExamplesCore, <<"Generation">>, <<"LicenseHelper", ".cs">>>>
P_Test == <<ExamplesCore, <<"Reading">>, <<"Read", "Test", ".cs">>>>
P_Readme == <<ExamplesCore, <<"Formatting">>, <<"README", ".md">>>>
P_OtherRoot == <<<<"Tools">>, <<"Generation">>, <<"Runner", ".cs">>>>
P_NoCategory == <<ExamplesCore, <<"Program", ".cs">>>>
P_NameOnly == <<ExamplesCore, <<"Shared">>, <<"Reading", "Helper", ".cs">>>>
P_TwoCategories == <<ExamplesCore, <<"Advanced">>, <<"Generation">>, <<"Batch", "Example", ".cs">>>>
P_DotFile == <<ExamplesCore, <<"Advanced">>, <<".cs">>>>

ChangedPaths == {P_Basic, P_License, P_Test, P_Readme, P_OtherRoot, P_NoCategory,
                 P_NameOnly, P_TwoCategories, P_DotFile}

RECURSIVE SeqsUpTo(_, _)
SeqsUpTo(S, n) ==
    IF n = 0 THEN {<<>>}
    ELSE LET shorter == SeqsUpTo(S, n - 1) IN
         shorter \cup {Append(s, x) : s \in {t \in shorter : Len(t) = n - 1}, x \in S}

Range(s) == {s[i] : i \in 1..Len(s)}

CIdle == /\ changed_files = <<>> /\ disk = {} /\ cidx = 0 /\ example_files = <<>>
         /\ gh_output = <<>> /\ cpc = "idle"

\* line 73: the change list git reports, and the files on disk
CInit == /\ changed_files \in SeqsUpTo(ChangedPaths, MaxChanged)
         /\ disk \in SUBSET Range(changed_files)
         /\ cidx = 1 /\ example_files = <<>> /\ gh_output = <<>> /\ cpc = "loop"

\* lines 78-86: one iteration of the filter loop
ClassifyNext ==
    /\ cpc = "loop"
    /\ cidx <= Len(changed_files)
    /\ LET file_path == changed_files[cidx] IN
       example_files' =
           IF is_example_file(file_path) /\ file_path \in disk
           THEN Append(example_files, [path |-> file_path,
                                       category |-> get_example_category(file_path),
                                       name |-> PathStem(file_path)])
           ELSE example_files
    /\ cidx' = cidx + 1
    /\ UNCHANGED <<changed_files, disk, gh_output, cpc, xvars, svars, fvars, gvars>>

\* lines 90-96: the two outputs appended to GITHUB_OUTPUT
WriteOutputs ==
    /\ cpc = "loop"
    /\ cidx > Len(changed_files)
    /\ gh_output' = <<[has_new_examples |-> Len(example_files) > 0,
                       examples |-> [i \in 1..Len(example_files) |-> example_files[i].path]]>>
    /\ cpc' = "done"
    /\ UNCHANGED <<changed_files, disk, cidx, example_files, xvars, svars, fvars, gvars>>

(***************************************************************************)
(* determine_docs_path                                                     *)
(*                                                                         *)
(* A title is a sequence of lexemes: words, " ", "-", "_" and punctuation. *)
(* "I_DOT" is U+0130, whose str.lower() is "i" followed by the combining   *)
(* dot U+0307 ("COMB_DOT"), which is not a word character.                 *)
(***************************************************************************)
\* number of characters of a title
MaxTitleLen == 4

NonWordLexemes == {" ", "-", "!", ".", ",", "(", ")", "/", "\n", "COMB_DOT"}

\* [^\w\s-]: neither a word character, nor whitespace, nor a hyphen
IsStripped(c) == c \in NonWordLexemes /\ c # " " /\ c # "-"

\* [-\s]: a hyphen or whitespace
IsSeparator(c) == c = "-" \/ c = " "

\* str.lower() of one lexeme
LowerOf(c) ==
    CASE c = "A" -> <<"a">>
      [] c = "I_DOT" -> <<"i", "COMB_DOT">>
      [] c = "Basic" -> <<"basic">>
      [] c = "Generation" -> <<"generation">>
      [] c = "Read" -> <<"read">>
      [] c = "QR" -> <<"qr">>
      [] c = "Code" -> <<"code">>
      [] c = "Program" -> <<"program">>
      [] c = "Reading" -> <<"reading">>
      [] c = "Formatting" -> <<"formatting">>
      [] c = "Advanced" -> <<"advanced">>
      [] c = "General" -> <<"general">>
      [] OTHER -> <<c>>

\* str.lower()
RECURSIVE Lower(_)
Lower(s) == IF s = <<>> THEN <<>> ELSE LowerOf(Head(s)) \o Lower(Tail(s))

\* re.sub(r'[^\w\s-]', '', title)
RemoveNonWord(s) == SelectSeq(s, LAMBDA c : ~IsStripped(c))

\* re.sub(r'[-\s]+', '-', filename): each maximal run of separators becomes one hyphen
RECURSIVE CollapseRuns(_)
CollapseRuns(s) ==
    IF s = <<>> THEN <<>>
    ELSE IF IsSeparator(Head(s))
         THEN IF Len(s) >= 2 /\ IsSeparator(s[2]) THEN CollapseRuns(Tail(s))
              ELSE <<"-">> \o CollapseRuns(Tail(s))
         ELSE <<Head(s)>> \o CollapseRuns(Tail(s))

\* a variant that collapses the separators before stripping the other characters
SlugifyCollapseFirst(title) == Lower(RemoveNonWord(CollapseRuns(Strip(title))))

\* lines 134-135
Slugify(title) == Lower(CollapseRuns(Strip(RemoveNonWord(title))))

\* lines 124-129
category_map(category) ==
    CASE category = "Generation" -> <<"net", "/", "developer-guide", "/", "barcode-generation">>
      [] category = "Reading" -> <<"net", "/", "developer-guide", "/", "barcode-reading">>
      [] category = "Formatting" -> <<"net", "/", "developer-guide", "/", "barcode-appearance">>
      [] category = "Advanced" -> <<"net", "/", "developer-guide", "/", "advanced-features">>
      [] OTHER -> <<"net", "/", "developer-guide">>

\* lines 121-137
determine_docs_path(category, title) == category_map(category) \o <<"/">> \o Slugify(title)

TitleChars == {"a", "A", "_", " ", "-", "!", "I_DOT"}

SIdle == title_in = <<>> /\ slug1 = <<>> /\ slug2 = <<>> /\ spc = "idle"

SInit == /\ title_in \in SeqsUpTo(TitleChars, MaxTitleLen)
         /\ slug1 = <<>> /\ slug2 = <<>> /\ spc = "title"

\* the slug of the title
SlugOnce ==
    /\ spc = "title"
    /\ slug1' = Slugify(title_in)
    /\ spc' = "slug"
    /\ UNCHANGED <<title_in, slug2, xvars, cvars, fvars, gvars>>

\* the slug of the slug
SlugTwice ==
    /\ spc = "slug"
    /\ slug2' = Slugify(slug1)
    /\ spc' = "done"
    /\ UNCHANGED <<title_in, slug1, xvars, cvars, fvars, gvars>>

(***************************************************************************)
(* fallback_analysis                                                       *)
(***************************************************************************)
\* number of lexemes of a code text scanned for type markers
MaxTextLen == 3

Markers == <<"EncodeTypes.Code128", "EncodeTypes.QR", "EncodeTypes.DataMatrix",
             "EncodeTypes.PDF417", "EncodeTypes.Aztec">>
Labels == <<"Code128", "QR Code", "DataMatrix", "PDF417", "Aztec">>

\* a variant that tests for QR before Code128
BarcodeTypesQRFirst(text) ==
    LET t1 == IF Contains(text, <<Markers[2]>>) THEN <<Labels[2]>> ELSE <<>>
        t2 == IF Contains(text, <<Markers[1]>>) THEN Append(t1, Labels[1]) ELSE t1
        t3 == IF Contains(text, <<Markers[3]>>) THEN Append(t2, Labels[3]) ELSE t2
        t4 == IF Contains(text, <<Markers[4]>>) THEN Append(t3, Labels[4]) ELSE t3
        t5 == IF Contains(text, <<Markers[5]>>) THEN Append(t4, Labels[5]) ELSE t4
    IN t5

\* lines 91-101: the five tests in checklist order
BarcodeTypes(text) ==
    LET t1 == IF Contains(text, <<"EncodeTypes.Code128">>) THEN <<"Code128">> ELSE <<>>
        t2 == IF Contains(text, <<"EncodeTypes.QR">>) THEN Append(t1, "QR Code") ELSE t1
        t3 == IF Contains(text, <<"EncodeTypes.DataMatrix">>) THEN Append(t2, "DataMatrix") ELSE t2
        t4 == IF Contains(text, <<"EncodeTypes.PDF417">>) THEN Append(t3, "PDF417") ELSE t3
        t5 == IF Contains(text, <<"EncodeTypes.Aztec">>) THEN Append(t4, "Aztec") ELSE t4
    IN t5

\* lines 114-119 on Path.parts
get_category_from_path(path) ==
    IF CategoryParts(path) # <<>> THEN CategoryParts(path)[1][1] ELSE "General"

\* str.replace(old, new) for a one-lexeme `old`
RECURSIVE Replace(_, _, _)
Replace(s, old, new) ==
    IF s = <<>> THEN <<>>
    ELSE (IF Head(s) = old THEN new ELSE <<Head(s)>>) \o Replace(Tail(s), old, new)

\* a variant that keeps "Example" in the title
FallbackTitleKeepExample(path) == Replace(PathStem(path), "_", <<" ">>)

\* line 104: path.stem.replace("Example", "").replace("_", " ")
FallbackTitle(path) == Replace(Replace(PathStem(path), "Example", <<>>), "_", <<" ">>)

RequiredKeys == {"title", "description", "category", "barcode_types", "key_features",
                 "keywords", "technical_summary", "code_explanation"}

\* lines 85-112; code_content is the text, path the Path of file_path
fallback_analysis(text, path) ==
    LET category == get_category_from_path(path) IN
    [title |-> FallbackTitle(path),
     description |-> <<"Demonstrates", " ">> \o Lower(<<category>>)
                     \o <<" ", "functionality in Aspose.BarCode for .NET">>,
     category |-> category,
     barcode_types |-> BarcodeTypes(text),
     key_features |-> <<"Barcode Generation", "File Output", "Custom Parameters">>,
     keywords |-> <<"Aspose.BarCode, .NET,", " ", category, ",", " ", "Barcode, C#">>,
     technical_summary |-> <<"This example shows how to use Aspose.BarCode for .NET for", " ">>
                           \o Lower(<<category>>),
     code_explanation |-> <<"The example demonstrates basic usage patterns of the Aspose.BarCode library.">>]

TextLexemes == {"EncodeTypes.Code128", "EncodeTypes.QR", "EncodeTypes.DataMatrix",
                "EncodeTypes.PDF417", "EncodeTypes.Aztec", "BarcodeGenerator"}

FIdle == fb_text = <<>> /\ fb_types = <<>> /\ fpc = "idle"

FInit == /\ fb_text \in SeqsUpTo(TextLexemes, MaxTextLen)
         /\ fb_types = <<>> /\ fpc = "scan"

\* lines 91-101 on the text
ScanTypes ==
    /\ fpc = "scan"
    /\ fb_types' = fallback_analysis(fb_text, P_Basic).barcode_types
    /\ fpc' = "done"
    /\ UNCHANGED <<fb_text, xvars, cvars, svars, gvars>>

(***************************************************************************)
(* analyze_example_code                                                    *)
(*                                                                         *)
(* The service's answer is free text: lexemes "text", "{", "}" and a       *)
(* member list ("members_...") standing for the comma-separated            *)
(* "key": value pairs of one JSON object.                                  *)
(***************************************************************************)
\* what a complete answer of the service holds
ServiceAnalysis ==
    [title |-> <<"QR", " ", "Code", " ", "Generation", "!">>,
     description |-> <<"Generates a QR code">>,
     category |-> "Generation",
     barcode_types |-> <<"QR">>,
     key_features |-> <<"Error correction">>,
     keywords |-> <<"QR, barcode">>,
     technical_summary |-> <<"Uses BarcodeGenerator">>,
     code_explanation |-> <<"Creates the generator and saves the image">>]

MemberKeys(m) ==
    CASE m = "members_all" -> RequiredKeys
      [] m = "members_no_title" -> RequiredKeys \ {"title"}
      [] m = "members_no_features" -> RequiredKeys \ {"key_features", "barcode_types"}
      [] OTHER -> {}

MemberLexemes == {"members_all", "members_no_title", "members_no_features"}

\* the positions of lexeme c in s
Positions(s, c) == {i \in 1..Len(s) : s[i] = c}

Min(S) == CHOOSE x \in S : \A y \in S : x <= y
Max(S) == CHOOSE x \in S : \A y \in S : x >= y

\* line 74: re.search(r'\{.*\}', content, re.DOTALL): from the first '{' to the
\* last '}' after it; <<>> stands for no match
JsonMatch(content) ==
    LET opens == Positions(content, "{")
        closes == Positions(content, "}") IN
    IF opens # {} /\ closes # {} /\ Min(opens) < Max(closes)
    THEN SubSeq(content, Min(opens), Max(closes))
    ELSE <<>>

\* json.loads accepts the text
JsonValid(group) ==
    \/ group = <<"{", "}">>
    \/ Len(group) = 3 /\ group[1] = "{" /\ group[2] \in MemberLexemes /\ group[3] = "}"

\* line 76: json.loads of an accepted text
JsonLoads(group) ==
    IF Len(group) = 3
    THEN [k \in MemberKeys(group[2]) |-> ServiceAnalysis[k]]
    ELSE [k \in {} |-> <<>>]

\* lines 66-83
analyze_example_code(text, path, resp) ==
    IF resp.kind # "ok" THEN fallback_analysis(text, path)
    ELSE IF JsonMatch(resp.content) = <<>> THEN fallback_analysis(text, path)
    ELSE IF ~JsonValid(JsonMatch(resp.content)) THEN fallback_analysis(text, path)
    ELSE JsonLoads(JsonMatch(resp.content))

\* what requests.post, raise_for_status and response.json() can produce
FailureKinds == {"connection_error", "timeout", "http_error", "bad_body"}

ServiceContents == {
    <<"text">>,
    <<"text", "{", "members_all", "}", "text">>,
    <<"{", "members_no_title", "}">>,
    <<"{", "members_no_features", "}">>,
    <<"{", "}">>,
    <<"{", "text", "}">>,
    <<"{", "members_all">>,
    <<"{", "members_all", "}", "text", "{", "members_all", "}">> }

Responses == {[kind |-> k, content |-> <<>>] : k \in FailureKinds}
             \cup {[kind |-> "ok", content |-> c] : c \in ServiceContents}

(***************************************************************************)
(* generate_documentation_content                                          *)
(***************************************************************************)
\* str.split('\n')
RECURSIVE SplitLines(_)
SplitLines(text) ==
    LET nl == Positions(text, "\n") IN
    IF nl = {} THEN <<text>>
    ELSE <<SubSeq(text, 1, Min(nl) - 1)>> \o SplitLines(SubSeq(text, Min(nl) + 1, Len(text)))

\* lines 186-239
clean_code_for_docs(text) == CleanCodeForDocs(SplitLines(text))

\* str.split('/', 2)[-1]
SplitTwoLast(s) ==
    LET sl == Positions(s, "/") IN
    IF sl = {} THEN s
    ELSE LET rest == SubSeq(s, Min(sl) + 1, Len(s))
             sl2 == Positions(rest, "/") IN
         IF sl2 = {} THEN rest ELSE SubSeq(rest, Min(sl2) + 1, Len(rest))

HighlightOpen == "{{< highlight csharp>}}"
HighlightClose == "{{< /highlight >}}"

\* the keys read with analysis[...] by lines 259, 144-153, 160 and 265
SubscriptedKeys == {"title", "description", "keywords", "category", "technical_summary"}

\* dict.get(key) is truthy
Truthy(an, key) == key \in DOMAIN an /\ an[key] # <<>>

\* lines 143-154
FrontMatter(an) ==
    [title |-> an["title"],
     type |-> "docs",
     description |-> an["description"],
     keywords |-> an["keywords"],
     ai_search_scope |-> "barcode_dotnet_doc",
     ai_search_endpoint |-> "https://docsearch.api.aspose.cloud/ask",
     weight |-> 10,
     feedback |-> "BARCODECOM",
     notoc |-> TRUE,
     url |-> <<"/net/">> \o SplitTwoLast(determine_docs_path(an["category"], an["title"]))
             \o <<"/">>]

\* lines 157-180
ContentParts(an, text) ==
    <<an["technical_summary"], <<>>>>
    \o (IF Truthy(an, "key_features")
        THEN <<<<"## Key Features">>>>
             \o [i \in 1..Len(an["key_features"]) |-> <<"-", " ", an["key_features"][i]>>]
             \o <<<<>>>>
        ELSE <<>>)
    \o (IF Truthy(an, "code_explanation") THEN <<an["code_explanation"], <<>>>> ELSE <<>>)
    \o <<<<"The following code sample demonstrates the implementation:">>, <<>>,
         <<HighlightOpen>>, clean_code_for_docs(text), <<HighlightClose>>>>

\* lines 139-184: the post handed to frontmatter.dumps
generate_documentation_content(an, text) ==
    [front_matter |-> FrontMatter(an), content |-> Join(ContentParts(an, text))]

(***************************************************************************)
(* generate_docs and main of generate_docs.py, for one example file        *)
(***************************************************************************)
Src_Basic == Join(<<
    <<"using", " ", "Aspose.BarCode.Generation;">>,
    <<>>,
    L_Namespace,
    <<"{">>,
    L_Class,
    Spaces(4) \o <<"{">>,
    L_Run,
    L_Open,
    L_Stmt,
    L_Close,
    Spaces(4) \o <<"}">>,
    <<"}">> >>)

Src_Types == Join(<<
    L_Class,
    L_Run,
    L_Open,
    Spaces(12) \o <<"Generate(", "EncodeTypes.QR", ")">>,
    Spaces(12) \o <<"Generate(", "EncodeTypes.Code128", ")">>,
    L_Close >>)

Src_NoScaffold == Join(<<L_Using, L_Stmt>>)

SourceTexts == {Src_Basic, Src_Types, Src_NoScaffold}

P_ReadQR == <<ExamplesCore, <<"Reading">>, <<"Read", "_", "QR", "_", "Example", ".cs">>>>

ExampleFiles == {P_Basic, P_ReadQR, P_NoCategory}

\* --examples-repo: the current directory, or a checkout below a directory
\* that happens to carry a category's name
ExamplesRepos == {<<>>, <<<<"Advanced">>, <<"checkout">>>>}

\* line 244: Path(examples_repo_path) / example_file
ExamplePath == examples_repo \o example_file

\* line 272: full_docs_path.with_suffix('.md'), below the docs repository
DocFilePath(path) ==
    (IF path # <<>> /\ path[Len(path)] = "/" THEN SubSeq(path, 1, Len(path) - 1) ELSE path)
    \o <<".md">>

GIdle == /\ api_key = FALSE /\ examples_repo = <<>> /\ example_file = <<>>
         /\ code_content = <<>> /\ response = [kind |-> "none", content |-> <<>>]
         /\ analysis = <<>> /\ doc = <<>> /\ docs_path = <<>> /\ written = <<>>
         /\ outcome = "none" /\ gpc = "idle"

GInit == /\ api_key \in BOOLEAN
         /\ examples_repo \in ExamplesRepos
         /\ example_file \in ExampleFiles
         /\ code_content = <<>> /\ response = [kind |-> "none", content |-> <<>>]
         /\ analysis = <<>> /\ doc = <<>> /\ docs_path = <<>> /\ written = <<>>
         /\ outcome = "none" /\ gpc = "main"

\* lines 288-295: the credential check
CheckApiKey ==
    /\ gpc = "main"
    /\ IF api_key THEN gpc' = "exists" /\ outcome' = outcome
                  ELSE gpc' = "done" /\ outcome' = "exit1_no_key"
    /\ UNCHANGED <<api_key, examples_repo, example_file, code_content, response,
                   analysis, doc, docs_path, written, xvars, cvars, svars, fvars>>

\* lines 246-248 and 304-308: a missing file returns False, main reports the failure
CheckExists ==
    /\ gpc = "exists"
    /\ \E exists \in BOOLEAN :
        IF exists THEN gpc' = "read" /\ outcome' = outcome
                  ELSE gpc' = "done" /\ outcome' = "exit1_failed"
    /\ UNCHANGED <<api_key, examples_repo, example_file, code_content, response,
                   analysis, doc, docs_path, written, xvars, cvars, svars, fvars>>

\* lines 251-252: open and read; an OSError or UnicodeDecodeError is not caught
ReadFile ==
    /\ gpc = "read"
    /\ \/ \E text \in SourceTexts :
            /\ code_content' = text /\ gpc' = "analyze" /\ outcome' = outcome
       \/ /\ code_content' = code_content /\ gpc' = "done" /\ outcome' = "exception"
    /\ UNCHANGED <<api_key, examples_repo, example_file, response,
                   analysis, doc, docs_path, written, xvars, cvars, svars, fvars>>

\* lines 257-259: the analysis, then analysis['title'] is printed
Analyze ==
    /\ gpc = "analyze"
    /\ \E resp \in Responses :
        LET an == analyze_example_code(code_content, ExamplePath, resp) IN
        /\ response' = resp
        /\ analysis' = an
        /\ IF "title" \in DOMAIN an THEN gpc' = "generate" /\ outcome' = outcome
                                    ELSE gpc' = "done" /\ outcome' = "exception"
    /\ UNCHANGED <<api_key, examples_repo, example_file, code_content,
                   doc, docs_path, written, xvars, cvars, svars, fvars>>

\* lines 262-266: the document and its path; a missing key raises KeyError
Generate ==
    /\ gpc = "generate"
    /\ IF SubscriptedKeys \subseteq DOMAIN analysis
       THEN /\ doc' = generate_documentation_content(analysis, code_content)
            /\ docs_path' = determine_docs_path(analysis["category"], analysis["title"])
            /\ gpc' = "write" /\ outcome' = outcome
       ELSE /\ doc' = doc /\ docs_path' = docs_path
            /\ gpc' = "done" /\ outcome' = "exception"
    /\ UNCHANGED <<api_key, examples_repo, example_file, code_content, response,
                   analysis, written, xvars, cvars, svars, fvars>>

\* lines 269-277 and 304-305: mkdir, open and write; an OSError is not caught
WriteDoc ==
    /\ gpc = "write"
    /\ \/ /\ written' = Append(written, [path |-> DocFilePath(docs_path), doc |-> doc])
          /\ outcome' = "exit0"
       \/ /\ written' = written
          /\ outcome' = "exception"
    /\ gpc' = "done"
    /\ UNCHANGED <<api_key, examples_repo, example_file, code_content, response,
                   analysis, doc, docs_path, xvars, cvars, svars, fvars>>

(***************************************************************************)
(* Specifications, one per script entry point                              *)
(***************************************************************************)
InitExtract == XInit /\ CIdle /\ SIdle /\ FIdle /\ GIdle
NextExtract == ProcessLine \/ EndOfInput \/ ReturnCleaned
SpecExtract == InitExtract /\ [][NextExtract]_vars

InitDetect == XIdle /\ CInit /\ SIdle /\ FIdle /\ GIdle
NextDetect == ClassifyNext \/ WriteOutputs
SpecDetect == InitDetect /\ [][NextDetect]_vars

InitSlug == XIdle /\ CIdle /\ SInit /\ FIdle /\ GIdle
NextSlug == SlugOnce \/ SlugTwice
SpecSlug == InitSlug /\ [][NextSlug]_vars

InitFallback == XIdle /\ CIdle /\ SIdle /\ FInit /\ GIdle
NextFallback == ScanTypes
SpecFallback == InitFallback /\ [][NextFallback]_vars

Init == XIdle /\ CIdle /\ SIdle /\ FIdle /\ GInit
Next == CheckApiKey \/ CheckExists \/ ReadFile \/ Analyze \/ Generate \/ WriteDoc
Spec == Init /\ [][Next]_vars

(***************************************************************************)
(* Properties of clean_code_for_docs (SpecExtract)                         *)
(***************************************************************************)
Last(s) == s[Len(s)]

\* the text of the line declares a public static class / the Run entry point
HasClassText(line) == Contains(line, ClassDecl)
HasRunText(line) == Contains(line, RunSig)

\* some 'public static class' line is followed later by a 'public static void Run(' line
HasEntry(ls) ==
    \E i \in 1..Len(ls) : HasClassText(ls[i]) /\ \E j \in (i + 1)..Len(ls) : HasRunText(ls[j])

\* the index of the first Run( line that follows the first class line
EntryIndex(ls) ==
    LET c == Min({i \in 1..Len(ls) : HasClassText(ls[i])}) IN
    Min({j \in (c + 1)..Len(ls) : HasRunText(ls[j])})

\* opening minus closing braces over the first k lines of `body`
RECURSIVE TextDepth(_, _)
TextDepth(body, k) ==
    IF k = 0 THEN 0
    ELSE TextDepth(body, k - 1) + Count(body[k], "{") - Count(body[k], "}")

\* `body` is a method body in its own braces: it opens with a '{' line, stays
\* open up to its last line, and its last line closes it
BraceBalanced(body) ==
    /\ Len(body) >= 2
    /\ Strip(body[1]) = <<"{">>
    /\ \A k \in 1..(Len(body) - 1) : TextDepth(body, k) >= 1
    /\ TextDepth(body, Len(body)) = 0

\* the text read so far is a class line, later a Run( line, then a brace-balanced body
WellFormedScaffold(ls) ==
    /\ HasEntry(ls)
    /\ BraceBalanced(SubSeq(ls, EntryIndex(ls) + 1, Len(ls)))

NoUsingOrNamespace(ls) ==
    \A i \in 1..Len(ls) : ~IsUsingOrNamespace(Strip(ls[i]))

\* C4: when extraction stops on a text holding a well-formed scaffold, no emitted
\* line starts with 'using ' or 'namespace ' and the running brace depth is exactly 0.
C4_ScaffoldDepthZero ==
    (broke /\ WellFormedScaffold(lines)) =>
        (NoUsingOrNamespace(cleaned_lines) /\ brace_count = 0)

\* C5: a text without a 'public static class' line followed later by a
\* 'public static void Run(' line yields the empty result: the loop ends with
\* in_method still false, nothing was emitted, and the function returns ''.
C5_NoEntryEmptyResult ==
    /\ ~HasEntry(lines) =>
        /\ ~in_method /\ cleaned_lines = <<>> /\ ~broke
        /\ xpc = "done" => xresult = <<>>
    /\ (xpc = "done" /\ ~in_method) => xresult = <<>>

\* C5 witness: a finished run over a text that has a Run( line and a statement but
\* no class line before the Run( line
C5_Witness ==
    /\ xpc = "done" /\ ~HasEntry(lines)
    /\ \E i \in 1..Len(lines) : HasRunText(lines[i])
    /\ \E i \in 1..Len(lines) : lines[i] = L_Stmt
    /\ \E i \in 1..Len(lines) : lines[i] = L_Close

\* C10 as stated: on the line where brace depth returns to <= 0 and whose trimmed
\* content ends with '}', extraction stops and that line is not emitted.
C10_ClosingLineNotEmitted ==
    [][(~broke /\ broke') => cleaned_lines' = cleaned_lines]_vars

\* the loop skips the line without counting its braces (lines 199-200, 207-213)
SkippedInBody(line) ==
    \/ IsUsingOrNamespace(Strip(line))
    \/ IsClassLine(Strip(line))
    \/ HasRunText(Strip(line))

\* C10 amended: while in the body every line whose braces are counted is emitted,
\* the closing line included: the loop stops on the line where depth is <= 0 and
\* the trimmed line ends with '}' only after appending it, and that line is the
\* last line of the extracted code.
C10_ClosingLineEmittedLast ==
    /\ [][(xpc = "loop" /\ in_method /\ lines' # lines /\ ~SkippedInBody(Last(lines')))
            => /\ cleaned_lines' = Append(cleaned_lines,
                                          IF Strip(Last(lines')) = <<>> THEN <<>>
                                          ELSE AdjustLine(Last(lines')))
               /\ broke' = (brace_count' <= 0 /\ EndsWith(Strip(Last(lines')), <<"}">>))]_vars
    /\ [](broke => /\ cleaned_lines # <<>>
                   /\ Last(cleaned_lines) = AdjustLine(Last(lines))
                   /\ (xpc = "done" => EndsWith(xresult, AdjustLine(Last(lines)))))

\* C10 witness: the loop stopped on a closing line after emitting a brace, a
\* statement and the closing line, and the function returned
C10_Witness ==
    /\ xpc = "done" /\ broke
    /\ Len(cleaned_lines) >= 3
    /\ Last(lines) = L_Close
    /\ \E i \in 1..Len(cleaned_lines) : cleaned_lines[i] = AdjustLine(L_Stmt)

\* C11: once the extractor is in the body, the brace depth equals the opening
\* minus closing brace characters summed over every line read since the
\* entry-point line; no body line is skipped without being counted, a line that
\* starts with 'using ' or 'namespace ' included.
C11_DepthCountsEveryBodyLine ==
    (in_method /\ HasEntry(lines)) =>
        LET body == SubSeq(lines, EntryIndex(lines) + 1, Len(lines)) IN
        brace_count = TextDepth(body, Len(body))

(***************************************************************************)
(* Properties of detect_examples.main (SpecDetect)                         *)
(***************************************************************************)
\* the path is among the example files main() collected
Accepted(path) == \E k \in 1..Len(example_files) : example_files[k].path = path

\* the five acceptance rules; rule 4 asks for a segment that is one of the four
\* category names (the category being the first such segment)
FiveRules(path) ==
    /\ \E i \in 1..Len(path) : path[i] = ExamplesCore
    /\ PathSuffix(path) = ".cs"
    /\ PathName(path) # <<"LicenseHelper", ".cs">> /\ ~Contains(PathName(path), <<"Test">>)
    /\ CategoryParts(path) # <<>>
    /\ path \in disk

\* C1: a changed path is accepted if and only if the five rules hold together.
C1_AcceptIffFiveRules ==
    cpc = "done" =>
        \A i \in 1..Len(changed_files) :
            Accepted(changed_files[i]) <=> FiveRules(changed_files[i])

\* C2: every accepted file has a category segment and is reported under the first
\* one, never 'Unknown'; a path without a category segment is not accepted.
C2_CategoryIsFirstSegment ==
    /\ \A k \in 1..Len(example_files) :
        /\ CategoryParts(example_files[k].path) # <<>>
        /\ example_files[k].category = CategoryParts(example_files[k].path)[1][1]
        /\ example_files[k].category # "Unknown"
    /\ \A i \in 1..Len(changed_files) :
        CategoryParts(changed_files[i]) = <<>> => ~Accepted(changed_files[i])

(***************************************************************************)
(* Properties of generate_docs (Spec)                                      *)
(***************************************************************************)
Analyzed == response.kind # "none"

\* C3: the analysis holds all eight required keys whatever the service did; a
\* parsed payload that lacks one is replaced by the fallback.
C3_AllRequiredKeys ==
    Analyzed => RequiredKeys \subseteq DOMAIN analysis

\* C6: a file that entered the pipeline ends with its document written once or
\* with its failure reported, never both and never neither; an I/O failure is
\* reported as the file's failure and does not end the run with an exception.
C6_ArtifactOrRecordedFailure ==
    (gpc = "done" /\ api_key) =>
        /\ outcome \in {"exit0", "exit1_failed"}
        /\ outcome = "exit0" <=> Len(written) = 1
        /\ outcome = "exit1_failed" <=> Len(written) = 0

\* the service is unreachable and BasicGenerationExample.cs went through the pipeline
C7_Scenario ==
    /\ gpc = "done" /\ outcome = "exit0"
    /\ example_file = P_Basic
    /\ code_content = Src_Basic
    /\ response.kind \in {"connection_error", "timeout"}

\* the document's body holds the extracted statement, eight leading spaces
\* removed, between the two highlight markers
C7_FencedStatement(body) ==
    LET ls == SplitLines(body) IN
    \E a \in 1..Len(ls) : \E b \in (a + 1)..Len(ls) : \E c \in (b + 1)..Len(ls) :
        /\ ls[a] = <<HighlightOpen>>
        /\ ls[b] = SubSeq(L_Stmt, 9, Len(L_Stmt))
        /\ ls[c] = <<HighlightClose>>

C7_UnderGenerationPrefix(path) ==
    StartsWith(path, <<"net", "/", "developer-guide", "/", "barcode-generation", "/">>)

\* C7 as stated: the title is exactly "Basic Generation", the output path lies
\* under the Generation prefix and the body holds the fenced statement.
C7_TitleBasicGeneration ==
    C7_Scenario =>
        /\ written[1].doc.front_matter.title = <<"Basic", " ", "Generation">>
        /\ C7_UnderGenerationPrefix(written[1].path)
        /\ C7_FencedStatement(written[1].doc.content)

\* C7 amended: the title is the stem with "Example" removed, "BasicGeneration"
\* (no space is inserted); with no category-named directory above the example
\* path, the output path lies under the Generation prefix; the body holds the
\* fenced statement.
C7_TitleIsStemWithoutExample ==
    (C7_Scenario /\ CategoryParts(examples_repo) = <<>>) =>
        /\ written[1].doc.front_matter.title = <<"Basic", "Generation">>
        /\ written[1].path = <<"net", "/", "developer-guide", "/", "barcode-generation",
                               "/", "basic", "generation", ".md">>
        /\ C7_UnderGenerationPrefix(written[1].path)
        /\ C7_FencedStatement(written[1].doc.content)

\* C7 witness: the scenario ran from the current directory and wrote its document
C7_Witness ==
    /\ C7_Scenario
    /\ examples_repo = <<>>
    /\ Len(written) = 1

(***************************************************************************)
(* Properties of fallback_analysis (SpecFallback)                          *)
(***************************************************************************)
\* the checklist position of a label
LabelIndex(label) == CHOOSE k \in 1..Len(Labels) : Labels[k] = label

\* C8: barcode_types lists exactly the labels whose marker occurs in the text,
\* each once, in checklist order; a text with EncodeTypes.QR and
\* EncodeTypes.Code128 only yields <<"Code128", "QR Code">>.
C8_TypesInChecklistOrder ==
    fpc = "done" =>
        /\ \A k \in 1..Len(Markers) :
            (\E i \in 1..Len(fb_text) : fb_text[i] = Markers[k])
                <=> (\E j \in 1..Len(fb_types) : fb_types[j] = Labels[k])
        /\ \A j \in 1..Len(fb_types) : fb_types[j] \in Range(Labels)
        /\ \A i, j \in 1..Len(fb_types) :
            i < j => LabelIndex(fb_types[i]) < LabelIndex(fb_types[j])
        /\ (Range(fb_text) \cap Range(Markers) = {"EncodeTypes.QR", "EncodeTypes.Code128"})
                => fb_types = <<"Code128", "QR Code">>

\* C8 witness: QR occurs before Code128 in the text, twice
C8_Witness ==
    /\ fpc = "done"
    /\ fb_text = <<"EncodeTypes.QR", "EncodeTypes.QR", "EncodeTypes.Code128">>
    /\ fb_types = <<"Code128", "QR Code">>

(***************************************************************************)
(* Properties of the slug (SpecSlug)                                       *)
(***************************************************************************)
\* C9 as stated: the slug of a slug is the slug, for every title.
C9_SlugIdempotent ==
    spc = "done" => slug2 = slug1

\* C9 amended: the slug of a slug is the slug for every title without U+0130,
\* the one character whose lowercase form holds a non-word character.
C9_SlugIdempotentWithoutIDot ==
    (spc = "done" /\ "I_DOT" \notin Range(title_in)) => slug2 = slug1

\* C9 witness: a title with an upper-case letter and a separator run
\* whose slug differs from it
C9_Witness ==
    /\ spc = "done"
    /\ title_in = <<"A", " ", "-", "a">>
    /\ slug1 = <<"a", "-", "a">>
    /\ slug2 = slug1

====
